---- MODULE Spec2Model ----
(***************************************************************************)
(* ev_analysis.py: the "charging desert" notebook script.  Two CSV tables  *)
(* (vehicle registrations, charging stations) are read, filtered, grouped   *)
(* by postal code, left-joined, scored with an EV-to-port ratio and a       *)
(* priority label, and two ranked views are cut from the result.            *)
(*                                                                          *)
(* Text is a sequence of one-character strings.  A table is a sequence of   *)
(* records (one record per row, row position = the RangeIndex label + 1).   *)
(* A nullable number is <<>> (NaN) or <<v>>.  Fractions (coordinates, the   *)
(* ratio) are exact rationals [n, d] in lowest terms; the floats the script *)
(* computes from the integers of this model compare and order the same way. *)
(***************************************************************************)
EXTENDS Integers, Sequences, FiniteSets, TLC

VARIABLES
    pc,               \* the next notebook statement to run
    ev_csv,           \* data/ev_population.csv: the rows as text
    st_csv,           \* data/charging_stations.csv: the rows as text
    ev,               \* line 32, 37
    stations,         \* line 33, 38
    ev_wa,            \* line 85
    ev_bev,           \* line 89
    stations_public,  \* line 93, 100-105
    ev_by_zip,        \* line 115
    ports_by_zip,     \* line 126
    df,               \* line 140 onwards: the merged table
    zip_coords,       \* line 163
    priority_targets, \* line 219
    top_targets       \* line 275

vars == <<pc, ev_csv, st_csv, ev, stations, ev_wa, ev_bev, stations_public,
          ev_by_zip, ports_by_zip, df, zip_coords, priority_targets, top_targets>>

----------------------------------------------------------------------------
(* Bounds of the model.                                                     *)

\* Rows of the two CSV files together (Spec).
MaxRows == 3
\* Rows of a short scored table (SpecScore).
MaxPattern == 2
\* Rows of a long scored table (SpecScore).
MaxLong == 52
\* Rows of a long scored table that share a sort key (SpecScore).
MaxTie == 2

----------------------------------------------------------------------------
(* Values.                                                                  *)

NaN == <<>>

Some(v) == <<v>>

isna(x) == x = NaN

\* A missing value of a text column (pandas keeps it apart from any text).
NAKey == <<"<NA>">>

\* A name the script has not bound yet.
Unbound == <<>>

\* The exception line 118 can raise.
KeyError == "KeyError"

RECURSIVE GCD(_, _)
GCD(a, b) == IF b = 0 THEN a ELSE GCD(b, a % b)

Abs(x) == IF x < 0 THEN -x ELSE x

\* The fraction n/d (d # 0) in lowest terms with a positive denominator.
Rat(n, d) ==
    LET g == GCD(Abs(n), Abs(d))
        s == IF d < 0 THEN -1 ELSE 1
    IN  [n |-> s * (n \div g), d |-> s * (d \div g)]

\* float('inf') (np.inf), as the script's ratio column holds it.
Inf == [n |-> 1, d |-> 0]

\* float('-inf')
NegInf == [n |-> -1, d |-> 0]

\* float('nan')
FloatNaN == [n |-> 0, d |-> 0]

\* The float -0.0: equal to 0.0 as a number, written "-0.0".
NegZero == [n |-> 0, d |-> -1]

\* The number a float stands for: both zeros are the number 0.
Num(x) == IF x = NegZero THEN Rat(0, 1) ELSE x

\* a < b for floats; every comparison with nan is false.
RatLess(a, b) ==
    IF a = FloatNaN \/ b = FloatNaN THEN FALSE
    ELSE IF a = Inf THEN FALSE
    ELSE IF b = Inf THEN TRUE
    ELSE Num(a).n * Num(b).d < Num(b).n * Num(a).d

\* a + b for finite floats; -0.0 + -0.0 is -0.0.
RatAdd(a, b) ==
    IF a = NegZero /\ b = NegZero THEN NegZero
    ELSE Rat(Num(a).n * Num(b).d + Num(b).n * Num(a).d, Num(a).d * Num(b).d)

RECURSIVE SeqSum(_)
SeqSum(s) == IF s = <<>> THEN 0 ELSE Head(s) + SeqSum(Tail(s))

RECURSIVE RatSum(_)
RatSum(s) == IF s = <<>> THEN Rat(0, 1) ELSE RatAdd(Head(s), RatSum(Tail(s)))

SeqMap(f(_), s) == [i \in 1..Len(s) |-> f(s[i])]

Range(s) == {s[i] : i \in 1..Len(s)}

----------------------------------------------------------------------------
(* Text: Python's str operations on character sequences.  Numbers are read  *)
(* and written exactly as long as their digits fit the integers of the      *)
(* model checker (below 2^31).                                              *)

DigitChars == <<"0", "1", "2", "3", "4", "5", "6", "7", "8", "9">>

IsDigit(c) == \E i \in 1..10 : DigitChars[i] = c

DigitVal(c) == (CHOOSE i \in 1..10 : DigitChars[i] = c) - 1

\* The control characters Python counts as whitespace: vertical tab (11)
\* and the file, group, record and unit separators (28 to 31).
VT == ""

FS == ""

GS == ""

RS == ""

US == ""

\* The whitespace characters beyond ASCII that a string here can hold: next
\* line (U+0085) and no-break space (U+00A0).
NEL == ""

NBSP == " "

\* The whitespace control characters in code-point order (9 to 13, 28 to 31).
ControlOrder == <<"\t", "\n", VT, "\f", "\r", FS, GS, RS, US>>

\* The whitespace characters beyond ASCII in code-point order.
HighOrder == <<NEL, NBSP>>

\* The printable ASCII characters in code-point order (32 to 126; the
\* backquote, which a string here cannot hold, is left out).
CharOrder ==
    <<" ", "!", "\"", "#", "$", "%", "&", "'", "(", ")", "*", "+", ",", "-", ".", "/",
      "0", "1", "2", "3", "4", "5", "6", "7", "8", "9", ":", ";", "<", "=", ">", "?",
      "@", "A", "B", "C", "D", "E", "F", "G", "H", "I", "J", "K", "L", "M", "N", "O",
      "P", "Q", "R", "S", "T", "U", "V", "W", "X", "Y", "Z", "[", "\\", "]", "^", "_",
      "a", "b", "c", "d", "e", "f", "g", "h", "i", "j", "k", "l", "m", "n", "o",
      "p", "q", "r", "s", "t", "u", "v", "w", "x", "y", "z", "{", "|", "}", "~">>

\* The rank of a character in code-point order: the control characters
\* come before the printable ones, the characters beyond ASCII after them.
Ord(c) ==
    IF \E i \in 1..Len(ControlOrder) : ControlOrder[i] = c
    THEN (CHOOSE i \in 1..Len(ControlOrder) : ControlOrder[i] = c) - Len(ControlOrder)
    ELSE IF \E i \in 1..Len(HighOrder) : HighOrder[i] = c
    THEN (CHOOSE i \in 1..Len(HighOrder) : HighOrder[i] = c) + Len(CharOrder)
    ELSE CHOOSE i \in 1..Len(CharOrder) : CharOrder[i] = c

\* c.lower() for an ASCII character.
Lower(c) ==
    IF \E i \in 34..59 : CharOrder[i] = c THEN CharOrder[Ord(c) + 31] ELSE c

\* s.lower()
LowerStr(s) == [i \in 1..Len(s) |-> Lower(s[i])]

\* The characters c with c.isspace(): what str.split() splits on.
Whitespace == {" ", "\t", "\n", VT, "\f", "\r", FS, GS, RS, US, NEL, NBSP}

\* The whitespace of C's isspace: what read_csv's number parsers skip
\* around a number, and float() once the text is brought to ASCII.
CSpace == {" ", "\t", "\n", VT, "\f", "\r"}

\* What float() does to a text before it reads it: a whitespace character
\* beyond ASCII becomes a space (an ASCII character stays as it is).
ToASCII(s) == [i \in 1..Len(s) |-> IF s[i] \in Range(HighOrder) THEN " " ELSE s[i]]

\* s without the leading and trailing characters of the set chars.
StripChars(s, chars) ==
    LET keep == {i \in 1..Len(s) : s[i] \notin chars}
    IN  IF keep = {} THEN <<>>
        ELSE SubSeq(s, CHOOSE i \in keep : \A j \in keep : i <= j,
                       CHOOSE i \in keep : \A j \in keep : i >= j)

\* s as the number parsers of read_csv see it: the whitespace of C around
\* it skipped.
SkipSpace(s) == StripChars(s, CSpace)

\* s as float() sees it: brought to ASCII, then the whitespace of C around
\* it skipped.  Next line and no-break space are skipped, the separators
\* 28 to 31 are not.
FloatSkipSpace(s) == StripChars(ToASCII(s), CSpace)

\* a < b for Python strings.
RECURSIVE StrLess(_, _)
StrLess(a, b) ==
    IF b = <<>> THEN FALSE
    ELSE IF a = <<>> THEN TRUE
    ELSE IF Head(a) = Head(b) THEN StrLess(Tail(a), Tail(b))
    ELSE Ord(Head(a)) < Ord(Head(b))

AllDigits(s) == s # <<>> /\ \A i \in 1..Len(s) : IsDigit(s[i])

\* The number a run of digits denotes; underscores between digits are
\* skipped.
RECURSIVE DigitsVal(_)
DigitsVal(s) ==
    IF s = <<>> THEN 0
    ELSE IF s[Len(s)] = "_" THEN DigitsVal(SubSeq(s, 1, Len(s) - 1))
    ELSE 10 * DigitsVal(SubSeq(s, 1, Len(s) - 1)) + DigitVal(s[Len(s)])

\* The number of digits of such a run.
DigitCount(s) == Len(SelectSeq(s, IsDigit))

\* str(n) for an integer n >= 0.
RECURSIVE NatStr(_)
NatStr(n) ==
    IF n < 10 THEN <<DigitChars[n + 1]>>
    ELSE Append(NatStr(n \div 10), DigitChars[(n % 10) + 1])

\* str(n) for an integer.
IntStr(n) == IF n < 0 THEN <<"-">> \o NatStr(-n) ELSE NatStr(n)

RECURSIVE Pow10(_)
Pow10(k) == IF k = 0 THEN 1 ELSE 10 * Pow10(k - 1)

IsPrefix(p, s) == Len(p) <= Len(s) /\ SubSeq(s, 1, Len(p)) = p

\* s.replace(old, new): every occurrence, leftmost first, not overlapping.
RECURSIVE StrReplace(_, _, _)
StrReplace(s, old, new) ==
    IF s = <<>> THEN <<>>
    ELSE IF IsPrefix(old, s)
         THEN new \o StrReplace(SubSeq(s, Len(old) + 1, Len(s)), old, new)
         ELSE <<Head(s)>> \o StrReplace(Tail(s), old, new)

\* s.split(): the maximal runs of characters that are not whitespace.
RECURSIVE StrSplitFrom(_, _)
StrSplitFrom(s, cur) ==
    IF s = <<>> THEN (IF cur = <<>> THEN <<>> ELSE <<cur>>)
    ELSE IF Head(s) \in Whitespace
         THEN (IF cur = <<>> THEN <<>> ELSE <<cur>>) \o StrSplitFrom(Tail(s), <<>>)
         ELSE StrSplitFrom(Tail(s), Append(cur, Head(s)))

StrSplit(s) == StrSplitFrom(s, <<>>)

\* Position of the first "." of s, 0 when it has none.
DotAt(s) == IF \E i \in 1..Len(s) : s[i] = "."
            THEN CHOOSE i \in 1..Len(s) : s[i] = "." /\ \A j \in 1..(i - 1) : s[j] # "."
            ELSE 0

\* Position of the first "e" or "E" of s, 0 when it has none.
ExpAt(s) == IF \E i \in 1..Len(s) : s[i] \in {"e", "E"}
            THEN CHOOSE i \in 1..Len(s) :
                    s[i] \in {"e", "E"} /\ \A j \in 1..(i - 1) : s[j] \notin {"e", "E"}
            ELSE 0

\* s without one leading sign.
Unsigned(s) == IF s # <<>> /\ Head(s) \in {"-", "+"} THEN Tail(s) ELSE s

\* Digits, single underscores allowed between two digits.
IsDigitPart(s) ==
    /\ s # <<>>
    /\ \A i \in 1..Len(s) :
          \/ IsDigit(s[i])
          \/ s[i] = "_" /\ 1 < i /\ i < Len(s) /\ IsDigit(s[i - 1]) /\ IsDigit(s[i + 1])

\* digits, digits. , digits.digits or .digits
IsDecimalText(m) ==
    LET k  == DotAt(m)
        ip == SubSeq(m, 1, k - 1)
        fp == SubSeq(m, k + 1, Len(m))
    IN  IF k = 0 THEN IsDigitPart(m)
        ELSE /\ ip = <<>> \/ IsDigitPart(ip)
             /\ fp = <<>> \/ IsDigitPart(fp)
             /\ ip # <<>> \/ fp # <<>>

InfTexts == {<<"i", "n", "f">>, <<"i", "n", "f", "i", "n", "i", "t", "y">>}

NanText == <<"n", "a", "n">>

\* Text float() accepts: whitespace around [sign] inf | infinity | nan (in
\* any case) or [sign] decimal [e [sign] digits].
IsFloatText(s) ==
    LET u == Unsigned(FloatSkipSpace(s))
        e == ExpAt(u)
    IN  \/ LowerStr(u) \in InfTexts \cup {NanText}
        \/ IF e = 0 THEN IsDecimalText(u)
           ELSE /\ IsDecimalText(SubSeq(u, 1, e - 1))
                /\ IsDigitPart(Unsigned(SubSeq(u, e + 1, Len(u))))

\* float(s) of such a text: nan, an infinity, an exact fraction, or -0.0
\* for a zero with a minus sign.
FloatVal(s) ==
    LET t   == FloatSkipSpace(s)
        neg == t # <<>> /\ Head(t) = "-"
        u   == Unsigned(t)
        e   == ExpAt(u)
        m   == IF e = 0 THEN u ELSE SubSeq(u, 1, e - 1)
        xt  == IF e = 0 THEN <<>> ELSE SubSeq(u, e + 1, Len(u))
        x   == IF xt # <<>> /\ Head(xt) = "-" THEN -DigitsVal(Unsigned(xt))
               ELSE DigitsVal(Unsigned(xt))
        k   == DotAt(m)
        ip  == IF k = 0 THEN m ELSE SubSeq(m, 1, k - 1)
        fp  == IF k = 0 THEN <<>> ELSE SubSeq(m, k + 1, Len(m))
        all == DigitsVal(ip) * Pow10(DigitCount(fp)) + DigitsVal(fp)
        sh  == x - DigitCount(fp)
        mag == IF sh >= 0 THEN Rat(all * Pow10(sh), 1) ELSE Rat(all, Pow10(-sh))
    IN  IF LowerStr(u) = NanText THEN FloatNaN
        ELSE IF LowerStr(u) \in InfTexts THEN (IF neg THEN NegInf ELSE Inf)
        ELSE IF neg /\ mag.n = 0 THEN NegZero
        ELSE IF neg THEN Rat(-mag.n, mag.d) ELSE mag

\* The least k with d dividing 10^k (d a product of twos and fives).
RECURSIVE DecimalPlaces(_, _)
DecimalPlaces(d, k) == IF Pow10(k) % d = 0 THEN k ELSE DecimalPlaces(d, k + 1)

\* s padded with zeros on the left to n characters.
RECURSIVE ZeroPad(_, _)
ZeroPad(s, n) == IF Len(s) >= n THEN s ELSE ZeroPad(<<"0">> \o s, n)

\* repr(x) of a float read from decimal text: 98101.0 -> "98101.0",
\* 0.00001 -> "1e-05".
FloatStr(x) ==
    LET a    == Abs(x.n)
        sign == IF x.n < 0 THEN <<"-">> ELSE <<>>
        k    == DecimalPlaces(Abs(x.d), 0)
        all  == NatStr(a * (Pow10(k) \div x.d))
        fr   == (a % x.d) * (Pow10(k) \div x.d)
        ex   == k + 1 - Len(all)
    IN  IF x = FloatNaN THEN NanText
        ELSE IF x = NegZero THEN <<"-", "0", ".", "0">>
        ELSE IF x.d = 0 THEN sign \o <<"i", "n", "f">>
        ELSE IF a # 0 /\ a <= (x.d - 1) \div 10000
             THEN sign \o <<Head(all)>>
                  \o (IF Len(all) > 1 THEN <<".">> \o Tail(all) ELSE <<>>)
                  \o <<"e", "-">> \o ZeroPad(NatStr(ex), 2)
        ELSE sign \o NatStr(a \div x.d) \o <<".">>
             \o (IF k = 0 THEN <<"0">> ELSE ZeroPad(NatStr(fr), k))

----------------------------------------------------------------------------
(* The input files: the columns the script reads.                           *)

T98101 == <<"9", "8", "1", "0", "1">>

T98052 == <<"9", "8", "0", "5", "2">>

T98101f == <<"9", "8", "1", "0", "1", ".", "0">>

BEV == "Battery Electric Vehicle (BEV)"

PHEV == "Plug-in Hybrid Electric Vehicle (PHEV)"

Seattle == <<"S", "e", "a", "t", "t", "l", "e">>

Bellevue == <<"B", "e", "l", "l", "e", "v", "u", "e">>

\* "POINT (-122 47)"
LocGood == <<"P", "O", "I", "N", "T", " ", "(", "-", "1", "2", "2", " ", "4", "7", ")">>

\* "POINT (? ?)": three parts, not numbers
LocBad == <<"P", "O", "I", "N", "T", " ", "(", "?", " ", "?", ")">>

\* "POINT (-122 47)" with a vertical tab and a no-break space for the
\* spaces
LocVT == <<"P", "O", "I", "N", "T", VT, "(", "-", "1", "2", "2", NBSP, "4", "7", ")">>

\* "POINT EMPTY": fewer than three parts
LocShort == <<"P", "O", "I", "N", "T", " ", "E", "M", "P", "T", "Y">>

\* "-0.0": read as the float -0.0
TNegZero == <<"-", "0", ".", "0">>

PostalCells == {T98101, T98052, T98101f, TNegZero, <<>>}

BaseEv ==
    [Postal_Code |-> T98101, State |-> "WA", Electric_Vehicle_Type |-> BEV,
     VIN |-> Some("5YJ3E1EA1K"), County |-> Some("King"), City |-> Seattle,
     Vehicle_Location |-> LocGood]

EvRowSpace ==
    [Postal_Code : PostalCells, State : {"WA", "OR"},
     Electric_Vehicle_Type : {BEV, PHEV}, VIN : {Some("5YJ3E1EA1K"), NaN},
     County : {Some("King"), NaN}, City : {Seattle, Bellevue, <<>>},
     Vehicle_Location : {LocGood, LocVT, LocBad, LocShort, <<>>}]

BaseSt ==
    [ZIP |-> T98101, Access_Code |-> "public", EV_Level2_EVSE_Num |-> Some(2),
     EV_DC_Fast_Count |-> Some(1), Latitude |-> Some(Rat(48, 1)),
     Longitude |-> Some(Rat(-122, 1))]

StRowSpace ==
    [ZIP : PostalCells, Access_Code : {"public", "private"},
     EV_Level2_EVSE_Num : {Some(2), NaN}, EV_DC_Fast_Count : {Some(1), NaN},
     Latitude : {Some(Rat(48, 1)), Some(Rat(47, 1)), NaN},
     Longitude : {Some(Rat(-122, 1)), Some(Rat(-123, 1)), NaN}]

\* The number of columns in which row r differs from row b.
Deviation(r, b) == Cardinality({c \in DOMAIN b : r[c] # b[c]})

\* The rows the input files are drawn from: the ordinary row and every row
\* that differs from it in one column (for a station, also in both
\* coordinates at once).
EvRows == {r \in EvRowSpace : Deviation(r, BaseEv) <= 1}

StRows ==
    {r \in StRowSpace :
        \/ /\ Deviation(r, BaseSt) <= 1
           /\ r.Latitude = BaseSt.Latitude /\ r.Longitude = BaseSt.Longitude
        \/ /\ Deviation(r, BaseSt) = 2
           /\ r.Latitude # BaseSt.Latitude /\ r.Longitude # BaseSt.Longitude
           /\ isna(r.Latitude) = isna(r.Longitude)}

----------------------------------------------------------------------------
(* Lines 32-38: read_csv and the normalisation of the join keys.            *)

\* The cell texts read_csv takes for a missing value (its default
\* na_values), the empty cell among them.
NAValues ==
    {<<>>,
     <<"#", "N", "/", "A">>,
     <<"#", "N", "/", "A", " ", "N", "/", "A">>,
     <<"#", "N", "A">>,
     <<"-", "1", ".", "#", "I", "N", "D">>,
     <<"-", "1", ".", "#", "Q", "N", "A", "N">>,
     <<"-", "N", "a", "N">>,
     <<"-", "n", "a", "n">>,
     <<"1", ".", "#", "I", "N", "D">>,
     <<"1", ".", "#", "Q", "N", "A", "N">>,
     <<"<", "N", "A", ">">>,
     <<"N", "/", "A">>,
     <<"N", "A">>,
     <<"N", "U", "L", "L">>,
     <<"N", "a", "N">>,
     <<"N", "o", "n", "e">>,
     <<"n", "/", "a">>,
     <<"n", "a", "n">>,
     <<"n", "u", "l", "l">>}

IsNACell(cell) == cell \in NAValues

\* A cell read_csv takes for an integer: [sign] digits, whitespace around
\* them skipped.
IsIntegerCell(cell) == AllDigits(Unsigned(SkipSpace(cell)))

\* The integer of such a cell.
IntVal(cell) ==
    LET t == SkipSpace(cell)
    IN  IF Head(t) = "-" THEN -DigitsVal(Tail(t)) ELSE DigitsVal(Unsigned(t))

\* digits, digits. , digits.digits or .digits, without underscores.
IsPlainDecimal(m) ==
    LET k  == DotAt(m)
        ip == SubSeq(m, 1, k - 1)
        fp == SubSeq(m, k + 1, Len(m))
    IN  IF k = 0 THEN AllDigits(m)
        ELSE /\ ip = <<>> \/ AllDigits(ip)
             /\ fp = <<>> \/ AllDigits(fp)
             /\ ip # <<>> \/ fp # <<>>

\* A cell read_csv takes for a float: [sign] decimal [e [sign] digits] with
\* whitespace around it skipped, or, as the whole cell, [sign] inf |
\* infinity in any case.  It has no text for nan but the missing values.
IsNumberCell(cell) ==
    LET u == Unsigned(SkipSpace(cell))
        e == ExpAt(u)
    IN  \/ LowerStr(Unsigned(cell)) \in InfTexts
        \/ IF e = 0 THEN IsPlainDecimal(u)
           ELSE /\ IsPlainDecimal(SubSeq(u, 1, e - 1))
                /\ AllDigits(Unsigned(SubSeq(u, e + 1, Len(u))))

\* A cell read_csv takes for the boolean True: the word true in any case,
\* nothing around it.
IsTrueCell(cell) == LowerStr(cell) = <<"t", "r", "u", "e">>

\* A cell read_csv takes for the boolean False: the word false in any case.
IsFalseCell(cell) == LowerStr(cell) = <<"f", "a", "l", "s", "e">>

\* The converter of read_csv that takes a column: the first of int64,
\* float64 and bool that accepts every cell that is not a missing value;
\* object (the cells stay text) when none does.
ColumnParser(cells) ==
    IF cells = <<>> THEN "object"
    ELSE IF \A i \in 1..Len(cells) : IsNACell(cells[i]) \/ IsIntegerCell(cells[i])
         THEN "int64"
    ELSE IF \A i \in 1..Len(cells) : IsNACell(cells[i]) \/ IsNumberCell(cells[i])
         THEN "float64"
    ELSE IF \A i \in 1..Len(cells) :
                IsNACell(cells[i]) \/ IsTrueCell(cells[i]) \/ IsFalseCell(cells[i])
         THEN "bool"
    ELSE "object"

\* The dtype pd.read_csv infers for a column from its cells: a missing value
\* turns integers into float64 and booleans into object.
ColumnDtype(cells) ==
    LET hasna == \E i \in 1..Len(cells) : IsNACell(cells[i])
    IN  IF ColumnParser(cells) = "int64" /\ hasna THEN "float64"
        ELSE IF ColumnParser(cells) = "bool" /\ hasna THEN "object"
        ELSE ColumnParser(cells)

\* Series.astype(str) on one cell of a column read by the given converter
\* into the given dtype: an integer, an integer turned float by a missing
\* value in its column (-0 is then 0.0), a float, a boolean or the text
\* itself.  A cell with a missing value was read as NaN;
\* pandas before 3.0 writes it as the text "nan", pandas 3.0 keeps it
\* missing (keepna).
AsTypeStr(cell, parser, dtype, keepna) ==
    IF IsNACell(cell) THEN (IF keepna THEN NAKey ELSE NanText)
    ELSE IF dtype = "int64" THEN IntStr(IntVal(cell))
    ELSE IF parser = "int64" THEN FloatStr(Rat(IntVal(cell), 1))
    ELSE IF dtype = "float64" THEN FloatStr(FloatVal(cell))
    ELSE IF parser = "bool"
         THEN (IF IsTrueCell(cell) THEN <<"T", "r", "u", "e">>
               ELSE <<"F", "a", "l", "s", "e">>)
    ELSE cell

\* A cell of a text column as read_csv reads it.
ReadText(cell) == IF IsNACell(cell) THEN NaN ELSE cell

\* Line 32: the text columns of the vehicle file.
ReadEv(tbl) ==
    [i \in 1..Len(tbl) |->
        [tbl[i] EXCEPT !.City = ReadText(@), !.Vehicle_Location = ReadText(@)]]

\* Series.str.replace('.0', '', regex=False) on one cell.
StripDotZero(s) == IF s = NAKey THEN NAKey ELSE StrReplace(s, <<".", "0">>, <<>>)

\* Line 37.
NormalizePostalCode(tbl, keepna) ==
    LET cells == [i \in 1..Len(tbl) |-> tbl[i].Postal_Code]
    IN  [i \in 1..Len(tbl) |->
            [tbl[i] EXCEPT !.Postal_Code =
                StripDotZero(AsTypeStr(@, ColumnParser(cells), ColumnDtype(cells),
                                       keepna))]]

\* Line 38.
NormalizeZIP(tbl, keepna) ==
    LET cells == [i \in 1..Len(tbl) |-> tbl[i].ZIP]
    IN  [i \in 1..Len(tbl) |->
            [tbl[i] EXCEPT !.ZIP =
                AsTypeStr(@, ColumnParser(cells), ColumnDtype(cells), keepna)]]

Load ==
    /\ pc = "load"
    /\ \E keepna \in BOOLEAN :
          /\ ev' = NormalizePostalCode(ReadEv(ev_csv), keepna)
          /\ stations' = NormalizeZIP(st_csv, keepna)
    /\ pc' = "clean"
    /\ UNCHANGED <<ev_csv, st_csv, ev_wa, ev_bev, stations_public, ev_by_zip,
                   ports_by_zip, df, zip_coords, priority_targets, top_targets>>

----------------------------------------------------------------------------
(* Lines 84-94: the filters.                                                *)

FilterState(tbl) == SelectSeq(tbl, LAMBDA r : r.State = "WA")

FilterBEV(tbl) == SelectSeq(tbl, LAMBDA r : r.Electric_Vehicle_Type = BEV)

FilterPublic(tbl) == SelectSeq(tbl, LAMBDA r : r.Access_Code = "public")

Clean ==
    /\ pc = "clean"
    /\ ev_wa' = FilterState(ev)
    /\ ev_bev' = FilterBEV(FilterState(ev))
    /\ stations_public' = FilterPublic(stations)
    /\ pc' = "ports"
    /\ UNCHANGED <<ev_csv, st_csv, ev, stations, ev_by_zip, ports_by_zip, df,
                   zip_coords, priority_targets, top_targets>>

----------------------------------------------------------------------------
(* Lines 100-105: the Total_Ports column of the public stations.            *)

fillna(x, v) == IF isna(x) THEN Some(v) ELSE x

AddTotalPorts(tbl) ==
    [i \in 1..Len(tbl) |->
        LET l2 == fillna(tbl[i].EV_Level2_EVSE_Num, 0)
            dc == fillna(tbl[i].EV_DC_Fast_Count, 0)
        IN  [ZIP |-> tbl[i].ZIP, Access_Code |-> tbl[i].Access_Code,
             EV_Level2_EVSE_Num |-> l2, EV_DC_Fast_Count |-> dc,
             Latitude |-> tbl[i].Latitude, Longitude |-> tbl[i].Longitude,
             Total_Ports |-> l2[1] + dc[1]]]

PortsColumn ==
    /\ pc = "ports"
    /\ stations_public' = AddTotalPorts(stations_public)
    /\ pc' = "agg_ev"
    /\ UNCHANGED <<ev_csv, st_csv, ev, stations, ev_wa, ev_bev, ev_by_zip,
                   ports_by_zip, df, zip_coords, priority_targets, top_targets>>

----------------------------------------------------------------------------
(* Lines 115-130: the two aggregations.                                     *)

\* The group keys of groupby(...): the distinct keys, missing ones dropped,
\* in ascending order.
RECURSIVE SortKeys(_)
SortKeys(S) ==
    IF S = {} THEN <<>>
    ELSE LET m == CHOOSE k \in S : \A o \in S \ {k} : StrLess(k, o)
         IN  <<m>> \o SortKeys(S \ {m})

GroupKeys(keys) == SortKeys(Range(keys) \ {NAKey})

\* The 'count' aggregation: the non-null values.
Count(col) == Len(SelectSeq(col, LAMBDA x : ~isna(x)))

\* The 'mean' aggregation: nulls skipped, NaN when nothing is left.
Mean(col) ==
    LET vals == SelectSeq(col, LAMBDA x : ~isna(x))
        sum  == RatSum(SeqMap(LAMBDA x : x[1], vals))
    IN  IF vals = <<>> THEN NaN ELSE Some(Rat(sum.n, sum.d * Len(vals)))

\* GroupBy.first(): the first non-null value, NaN when there is none.
First(col) ==
    LET vals == SelectSeq(col, LAMBDA x : ~isna(x))
    IN  IF vals = <<>> THEN NaN ELSE vals[1]

\* Series.mode(): the most frequent non-null values, in ascending order;
\* empty when every value is null.
Mode(col) ==
    LET vals   == SelectSeq(col, LAMBDA x : ~isna(x))
        cnt(v) == Len(SelectSeq(vals, LAMBDA x : x = v))
    IN  SortKeys({v \in Range(vals) : \A o \in Range(vals) : cnt(o) <= cnt(v)})

\* Line 118, the test of the lambda: x.mode()[0] is evaluated for every
\* group with a row, and raises KeyError when x.mode() is empty.
CityRaises(col) == Len(col) > 0 /\ Mode(col) = <<>>

\* Line 118, the value of the lambda when it does not raise.
CityOf(col) == IF Len(col) > 0 THEN Mode(col)[1] ELSE <<>>

\* The group of a key.
Group(tbl, key) == SelectSeq(tbl, LAMBDA r : r.Postal_Code = key)

\* Lines 115-119 raise: some group has no City value.
AggregateEVsRaises(tbl) ==
    \E key \in Range(GroupKeys(SeqMap(LAMBDA r : r.Postal_Code, tbl))) :
        CityRaises(SeqMap(LAMBDA r : r.City, Group(tbl, key)))

\* Lines 115-119: the table, or the exception.
AggregateEVs(tbl) ==
    LET keys == GroupKeys(SeqMap(LAMBDA r : r.Postal_Code, tbl))
    IN  IF AggregateEVsRaises(tbl) THEN KeyError
        ELSE [g \in 1..Len(keys) |->
                LET grp == Group(tbl, keys[g])
                IN  [Postal_Code |-> keys[g],
                     Total_EVs |-> Count(SeqMap(LAMBDA r : r.VIN, grp)),
                     County |-> First(SeqMap(LAMBDA r : r.County, grp)),
                     City |-> CityOf(SeqMap(LAMBDA r : r.City, grp))]]


\* Line 126.
AggregatePorts(tbl) ==
    LET keys == GroupKeys(SeqMap(LAMBDA r : r.ZIP, tbl))
    IN  [g \in 1..Len(keys) |->
            LET grp == SelectSeq(tbl, LAMBDA r : r.ZIP = keys[g])
            IN  [ZIP |-> keys[g],
                 Total_Ports |-> SeqSum(SeqMap(LAMBDA r : r.Total_Ports, grp)),
                 Latitude |-> Mean(SeqMap(LAMBDA r : r.Latitude, grp)),
                 Longitude |-> Mean(SeqMap(LAMBDA r : r.Longitude, grp))]]

\* Line 115.  An exception ends the run: no later statement is executed.
AggEVs ==
    /\ pc = "agg_ev"
    /\ IF AggregateEVsRaises(ev_bev)
       THEN pc' = KeyError /\ UNCHANGED ev_by_zip
       ELSE pc' = "agg_ports" /\ ev_by_zip' = AggregateEVs(ev_bev)
    /\ UNCHANGED <<ev_csv, st_csv, ev, stations, ev_wa, ev_bev, stations_public,
                   ports_by_zip, df, zip_coords, priority_targets, top_targets>>

AggPorts ==
    /\ pc = "agg_ports"
    /\ ports_by_zip' = AggregatePorts(stations_public)
    /\ pc' = "merge"
    /\ UNCHANGED <<ev_csv, st_csv, ev, stations, ev_wa, ev_bev, stations_public,
                   ev_by_zip, df, zip_coords, priority_targets, top_targets>>

----------------------------------------------------------------------------
(* Lines 139-148: the left join and the fill of the missing port totals.    *)

\* left.merge(right, left_on='Postal Code', right_on='ZIP', how='left'):
\* per left row, in order, one output row per right row with the same key,
\* or one row with the right columns missing when there is none.
RECURSIVE MergeLeft(_, _)
MergeLeft(left, right) ==
    IF left = <<>> THEN <<>>
    ELSE LET l == Head(left)
             hits == SelectSeq(right, LAMBDA r : r.ZIP = l.Postal_Code)
             rows == IF hits = <<>>
                     THEN <<[Postal_Code |-> l.Postal_Code, Total_EVs |-> l.Total_EVs,
                             County |-> l.County, City |-> l.City,
                             ZIP |-> NAKey, Total_Ports |-> NaN,
                             Latitude |-> NaN, Longitude |-> NaN]>>
                     ELSE [h \in 1..Len(hits) |->
                             [Postal_Code |-> l.Postal_Code, Total_EVs |-> l.Total_EVs,
                              County |-> l.County, City |-> l.City,
                              ZIP |-> hits[h].ZIP, Total_Ports |-> Some(hits[h].Total_Ports),
                              Latitude |-> hits[h].Latitude,
                              Longitude |-> hits[h].Longitude]]
         IN  rows \o MergeLeft(Tail(left), right)


\* Line 148: df['Total_Ports'].fillna(0).astype(int).
FillPorts(tbl) ==
    [i \in 1..Len(tbl) |-> [tbl[i] EXCEPT !.Total_Ports = fillna(@, 0)[1]]]

Merge ==
    /\ pc = "merge"
    /\ df' = FillPorts(MergeLeft(ev_by_zip, ports_by_zip))
    /\ pc' = "coords"
    /\ UNCHANGED <<ev_csv, st_csv, ev, stations, ev_wa, ev_bev, stations_public,
                   ev_by_zip, ports_by_zip, zip_coords, priority_targets, top_targets>>

----------------------------------------------------------------------------
(* Lines 150-165: coordinates for the codes without a station coordinate.   *)

\* 47.5, -120.5
DefaultCoords == <<Rat(95, 2), Rat(-241, 2)>>

\* str(location): a missing location is the float nan.
PyStr(location) == IF isna(location) THEN <<"n", "a", "n">> ELSE location

\* Lines 152-161; the result is (lat, lon).
extract_coords(location) ==
    LET parts == StrSplit(PyStr(location))
    IN  IF Len(parts) >= 3
        THEN LET lon == StrReplace(parts[2], <<"(">>, <<>>)
                 lat == StrReplace(parts[3], <<")">>, <<>>)
             IN  IF IsFloatText(lon) /\ IsFloatText(lat)
                 THEN <<FloatVal(lat), FloatVal(lon)>>
                 ELSE DefaultCoords
        ELSE DefaultCoords


\* An index label: the rows of df are labelled 0, 1, ... (RangeIndex), the
\* entries of a grouped Series by their group key.
IntLabel(i) == [t |-> "int", v |-> <<i>>]

StrLabel(k) == [t |-> "str", v |-> k]

LabelEq(a, b) == a.t = b.t /\ a.v = b.v

\* Line 163: a Series indexed by postal code.
ZipCoords(tbl) ==
    LET keys == GroupKeys(SeqMap(LAMBDA r : r.Postal_Code, tbl))
    IN  [g \in 1..Len(keys) |->
            LET grp == SelectSeq(tbl, LAMBDA r : r.Postal_Code = keys[g])
            IN  [index |-> StrLabel(keys[g]),
                 value |-> extract_coords(First(SeqMap(LAMBDA r : r.Vehicle_Location, grp)))]]

\* series.reindex(label): the value the Series holds under that label.
Lookup(series, label) ==
    LET hits == SelectSeq(series, LAMBDA e : LabelEq(e.index, label))
    IN  IF hits = <<>> THEN NaN ELSE Some(hits[1].value)

\* column.fillna(other) with a Series: a missing cell takes the value other
\* holds under the cell's own index label, and stays missing when other has
\* no such label or holds nan under it.
FillnaSeries(x, label, other) ==
    IF isna(x)
    THEN (IF Lookup(other, label) = Some(FloatNaN) THEN NaN ELSE Lookup(other, label))
    ELSE x


\* Lines 164-165.
FillCoords(tbl, coords) ==
    LET lats == [g \in 1..Len(coords) |->
                    [index |-> coords[g].index, value |-> coords[g].value[1]]]
        lons == [g \in 1..Len(coords) |->
                    [index |-> coords[g].index, value |-> coords[g].value[2]]]
    IN  [i \in 1..Len(tbl) |->
            [tbl[i] EXCEPT !.Latitude = FillnaSeries(@, IntLabel(i - 1), lats),
                           !.Longitude = FillnaSeries(@, IntLabel(i - 1), lons)]]

Coords ==
    /\ pc = "coords"
    /\ zip_coords' = ZipCoords(ev_bev)
    /\ df' = FillCoords(df, ZipCoords(ev_bev))
    /\ pc' = "ratio"
    /\ UNCHANGED <<ev_csv, st_csv, ev, stations, ev_wa, ev_bev, stations_public,
                   ev_by_zip, ports_by_zip, priority_targets, top_targets>>

----------------------------------------------------------------------------
(* Lines 167-185: the ratio and the priority label.                         *)

\* The ratio with the test ports > 1 for ports > 0.
EVToPortRatioOffByOne(evs, ports) == IF ports > 1 THEN Rat(evs, ports) ELSE Inf

\* Lines 168-172, one row: np.where(ports > 0, evs / ports, np.inf).
EVToPortRatio(evs, ports) == IF ports > 0 THEN Rat(evs, ports) ELSE Inf

\* The labels with >= for > at both thresholds.
categorize_priority_inclusive(ratio) ==
    IF ratio = Inf THEN "CRITICAL - No Ports"
    ELSE IF ~RatLess(ratio, Rat(100, 1)) THEN "High Opportunity"
    ELSE IF ~RatLess(ratio, Rat(50, 1)) THEN "Medium Opportunity"
    ELSE "Well Served"

\* Lines 175-183.
categorize_priority(ratio) ==
    IF ratio = Inf THEN "CRITICAL - No Ports"
    ELSE IF RatLess(Rat(100, 1), ratio) THEN "High Opportunity"
    ELSE IF RatLess(Rat(50, 1), ratio) THEN "Medium Opportunity"
    ELSE "Well Served"

AddRatio(tbl) ==
    [i \in 1..Len(tbl) |->
        [Postal_Code |-> tbl[i].Postal_Code, Total_EVs |-> tbl[i].Total_EVs,
         County |-> tbl[i].County, City |-> tbl[i].City,
         ZIP |-> tbl[i].ZIP, Total_Ports |-> tbl[i].Total_Ports,
         Latitude |-> tbl[i].Latitude, Longitude |-> tbl[i].Longitude,
         EV_to_Port_Ratio |-> EVToPortRatio(tbl[i].Total_EVs, tbl[i].Total_Ports)]]

AddPriority(tbl) ==
    [i \in 1..Len(tbl) |->
        [Postal_Code |-> tbl[i].Postal_Code, Total_EVs |-> tbl[i].Total_EVs,
         County |-> tbl[i].County, City |-> tbl[i].City,
         ZIP |-> tbl[i].ZIP, Total_Ports |-> tbl[i].Total_Ports,
         Latitude |-> tbl[i].Latitude, Longitude |-> tbl[i].Longitude,
         EV_to_Port_Ratio |-> tbl[i].EV_to_Port_Ratio,
         Priority_Level |-> categorize_priority(tbl[i].EV_to_Port_Ratio)]]

Ratio ==
    /\ pc = "ratio"
    /\ df' = AddRatio(df)
    /\ pc' = "priority"
    /\ UNCHANGED <<ev_csv, st_csv, ev, stations, ev_wa, ev_bev, stations_public,
                   ev_by_zip, ports_by_zip, zip_coords, priority_targets, top_targets>>

Priority ==
    /\ pc = "priority"
    /\ df' = AddPriority(df)
    /\ pc' = "top10"
    /\ UNCHANGED <<ev_csv, st_csv, ev, stations, ev_wa, ev_bev, stations_public,
                   ev_by_zip, ports_by_zip, zip_coords, priority_targets, top_targets>>

----------------------------------------------------------------------------
(* Lines 219-227 and 275: the two ranked views.                             *)

\* For each row of a table, the number of rows with a greater key (one key
\* per row): the rows a descending sort puts before it.
Above(keys) ==
    [i \in 1..Len(keys) |->
        Cardinality({j \in 1..Len(keys) : RatLess(keys[i], keys[j])})]

\* The orders in which the rows S, the ones a descending sort has not yet
\* placed, can follow the rows it has placed: next comes any row with no
\* greater key left in S.  The default sort of sort_values (quicksort) is
\* not stable: rows with equal keys come out in an order the numpy build
\* decides, so every order of them is possible.
RECURSIVE DescOrders(_, _)
DescOrders(S, above) ==
    IF S = {} THEN {<<>>}
    ELSE LET top == {i \in S : above[i] <= Len(above) - Cardinality(S)}
         IN  UNION {{<<i>> \o rest : rest \in DescOrders(S \ {i}, above)} : i \in top}

\* The orders of the row positions a descending sort by the keys can give.
TieOrders(keys) == UNION {DescOrders(1..Len(keys), above) : above \in {Above(keys)}}

\* tbl.sort_values(column, ascending=False), keys being the column: the
\* tables it can give.
SortValuesDesc(tbl, keys) ==
    UNION {{[j \in 1..Len(t) |-> t[order[j]]] : order \in TieOrders(k)} :
              t \in {tbl}, k \in {keys}}

\* tbl.head(n)
head(tbl, n) == SubSeq(tbl, 1, IF Len(tbl) < n THEN Len(tbl) ELSE n)

\* round(x) to the nearest integer, halves to the even one, for x >= 0.
RoundHalfEven(x) ==
    LET q == x.n \div x.d
        r == x.n % x.d
    IN  IF 2 * r < x.d THEN q
        ELSE IF 2 * r > x.d THEN q + 1
        ELSE IF q % 2 = 0 THEN q ELSE q + 1

\* The sign the display column shows for an infinite ratio (line 226),
\* written here in ASCII.
InfinitySign == <<"oo">>

\* Line 226: the infinity sign, or f'{x:.0f}'.
DisplayRatio(x) == IF x = Inf THEN InfinitySign ELSE IntStr(RoundHalfEven(x))

\* The top-10 view with Total_EVs >= 50 for Total_EVs > 50.
SelectPriorityTargetsInclusive(tbl) ==
    LET hits == SelectSeq(tbl, LAMBDA r : r.Total_Ports < 2 /\ r.Total_EVs >= 50)
    IN  {head(t, 10) :
            t \in SortValuesDesc(hits, SeqMap(LAMBDA r : Rat(r.Total_EVs, 1), hits))}

\* Lines 219-222: the views the statement can give.
SelectPriorityTargets(tbl) ==
    LET hits == SelectSeq(tbl, LAMBDA r : r.Total_Ports < 2 /\ r.Total_EVs > 50)
    IN  {head(t, 10) :
            t \in SortValuesDesc(hits, SeqMap(LAMBDA r : Rat(r.Total_EVs, 1), hits))}

\* Lines 225-227.
AddDisplayRatio(tbl) ==
    [i \in 1..Len(tbl) |->
        [Postal_Code |-> tbl[i].Postal_Code, Total_EVs |-> tbl[i].Total_EVs,
         County |-> tbl[i].County, City |-> tbl[i].City,
         ZIP |-> tbl[i].ZIP, Total_Ports |-> tbl[i].Total_Ports,
         Latitude |-> tbl[i].Latitude, Longitude |-> tbl[i].Longitude,
         EV_to_Port_Ratio |-> tbl[i].EV_to_Port_Ratio,
         Priority_Level |-> tbl[i].Priority_Level,
         Display_Ratio |-> DisplayRatio(tbl[i].EV_to_Port_Ratio)]]

\* The top-50 view cut without sorting first.
SelectTopTargetsUnsorted(tbl) ==
    {head(SelectSeq(tbl, LAMBDA r : r.Total_EVs > 20), 50)}

\* Line 275: the views the statement can give.
SelectTopTargets(tbl) ==
    LET hits == SelectSeq(tbl, LAMBDA r : r.Total_EVs > 20)
    IN  {head(t, 50) :
            t \in SortValuesDesc(hits, SeqMap(LAMBDA r : r.EV_to_Port_Ratio, hits))}

Top10 ==
    /\ pc = "top10"
    /\ \E view \in SelectPriorityTargets(df) :
          priority_targets' = AddDisplayRatio(view)
    /\ pc' = "export"
    /\ UNCHANGED <<ev_csv, st_csv, ev, stations, ev_wa, ev_bev, stations_public,
                   ev_by_zip, ports_by_zip, df, zip_coords, top_targets>>

Export ==
    /\ pc = "export"
    /\ \E view \in SelectTopTargets(df) : top_targets' = view
    /\ pc' = "done"
    /\ UNCHANGED <<ev_csv, st_csv, ev, stations, ev_wa, ev_bev, stations_public,
                   ev_by_zip, ports_by_zip, df, zip_coords, priority_targets>>

----------------------------------------------------------------------------
(* The whole script, from the two files.                                    *)

Init ==
    /\ pc = "load"
    /\ \E k \in 0..MaxRows, m \in 0..MaxRows :
          /\ k + m <= MaxRows
          /\ ev_csv \in [1..k -> EvRows]
          /\ st_csv \in [1..m -> StRows]
    /\ ev = Unbound /\ stations = Unbound /\ ev_wa = Unbound /\ ev_bev = Unbound
    /\ stations_public = Unbound /\ ev_by_zip = Unbound /\ ports_by_zip = Unbound
    /\ df = Unbound /\ zip_coords = Unbound
    /\ priority_targets = Unbound /\ top_targets = Unbound

Next ==
    \/ Load
    \/ Clean
    \/ PortsColumn
    \/ AggEVs
    \/ AggPorts
    \/ Merge
    \/ Coords
    \/ Ratio
    \/ Priority
    \/ Top10
    \/ Export

Spec == Init /\ [][Next]_vars

----------------------------------------------------------------------------
(* The scoring statements alone, from a merged table.  The statements from  *)
(* line 167 on read df and nothing else; the tables upstream are left       *)
(* unbound.  A merged table is a short one with totals around the           *)
(* thresholds, or a long one, with more rows than the views keep.           *)

ScoreEVs == {20, 21, 50, 51, 100, 101}

ScorePorts == {0, 1, 2}

\* The merged row of the i-th postal code with the given totals, as line 165
\* leaves it: a code with ports has a matching station aggregate.
MergedRow(i, kind) ==
    [Postal_Code |-> IntStr(98000 + i), Total_EVs |-> kind[1],
     County |-> Some("King"), City |-> Seattle,
     ZIP |-> IF kind[2] > 0 THEN IntStr(98000 + i) ELSE NAKey,
     Total_Ports |-> kind[2],
     Latitude |-> IF kind[2] > 0 THEN Some(Rat(48, 1)) ELSE NaN,
     Longitude |-> IF kind[2] > 0 THEN Some(Rat(-122, 1)) ELSE NaN]

\* The vehicle total below the smallest of a long table.
LongLows == {19, 49, 99}

\* The rank (1 = most vehicles) at which rows of a long table share their
\* vehicle total; 0 for no such rows.
LongTies == {0, 1, 10, 50}

Layouts == {"ascending", "interleaved"}

\* The rank of the i-th row of a long table.
LongRank(i, layout) ==
    IF layout = "ascending" THEN MaxLong + 1 - i
    ELSE IF i % 2 = 1 THEN (i + 1) \div 2
    ELSE MaxLong + 1 - (i \div 2)

\* A merged table of MaxLong codes with the vehicle totals lo + 1 to
\* lo + MaxLong, one each, but for MaxTie codes from rank tie on, which
\* have the same total; one port each, but no port for the zeros codes of
\* the fewest vehicles and two ports for the twos codes of the most.
LongTable(lo, tie, zeros, twos, layout) ==
    [i \in 1..MaxLong |->
        LET r  == LongRank(i, layout)
            rr == IF tie > 0 /\ r >= tie /\ r < tie + MaxTie THEN tie ELSE r
        IN  MergedRow(i, <<lo + MaxLong + 1 - rr,
                           IF r > MaxLong - zeros THEN 0
                           ELSE IF r <= twos THEN 2 ELSE 1>>)]

ScoreInit ==
    /\ pc = "ratio"
    /\ \/ \E k \in 0..MaxPattern :
             \E pat \in [1..k -> ScoreEVs \X ScorePorts] :
                 df = [i \in 1..k |-> MergedRow(i, pat[i])]
       \/ \E lo \in LongLows, tie \in LongTies, zeros \in 0..MaxTie,
             twos \in 0..1, layout \in Layouts :
                 df = LongTable(lo, tie, zeros, twos, layout)
    /\ ev_csv = Unbound /\ st_csv = Unbound
    /\ ev = Unbound /\ stations = Unbound /\ ev_wa = Unbound /\ ev_bev = Unbound
    /\ stations_public = Unbound /\ ev_by_zip = Unbound /\ ports_by_zip = Unbound
    /\ zip_coords = Unbound
    /\ priority_targets = Unbound /\ top_targets = Unbound


ScoreNext ==
    \/ Ratio
    \/ Priority
    \/ Top10
    \/ Export

SpecScore == ScoreInit /\ [][ScoreNext]_vars

----------------------------------------------------------------------------
(* Properties, stated on the rows of the input files and on the tables the  *)
(* script has built.                                                        *)

Pos(tbl) == 1..Len(tbl)

AfterLoad == {"clean", "ports", "agg_ev", "agg_ports", "merge", "coords", "ratio",
              "priority", "top10", "export", "done"}

AfterMerge == {"coords", "ratio", "priority", "top10", "export", "done"}

AfterCoords == {"ratio", "priority", "top10", "export", "done"}

AfterRatio == {"priority", "top10", "export", "done"}

AfterPriority == {"top10", "export", "done"}

AfterTop10 == {"export", "done"}

\* A vehicle row of the file that passes the vehicle filter.
Qualifies(r) == r.State = "WA" /\ r.Electric_Vehicle_Type = BEV

\* The postal code a cell of a file denotes: its digits, without a
\* fractional artifact.  An empty cell denotes none.
BareCode(cell) == IF DotAt(cell) = 0 THEN cell ELSE SubSeq(cell, 1, DotAt(cell) - 1)

\* The key is the postal code of a vehicle row of the file that passes the
\* filter.
IsVehicleCode(key) ==
    \E i \in Pos(ev_csv) :
        /\ Qualifies(ev_csv[i])
        /\ ev_csv[i].Postal_Code # <<>>
        /\ key = BareCode(ev_csv[i].Postal_Code)

\* A port count of the file, a missing one taken as zero.
PortCount(x) == IF x = <<>> THEN 0 ELSE x[1]

\* The df row without the columns added after the given ones.
Restrict(r, cols) == [c \in cols |-> r[c]]

ScoredColumns == {"Postal_Code", "Total_EVs", "County", "City", "ZIP", "Total_Ports",
                  "Latitude", "Longitude", "EV_to_Port_Ratio", "Priority_Level"}

\* C1: for every pair of input files the script builds the merged table
\* (no statement raises), and in it every postal code on a vehicle row that
\* passes the filter (State WA, type BEV) is the key of exactly one row,
\* with or without a public station of that code, and no two rows have the
\* same code.
C1_EveryVehicleCodeExactlyOnce ==
    /\ pc # KeyError
    /\ pc \in AfterMerge =>
        /\ \A i \in Pos(ev_csv) :
              (Qualifies(ev_csv[i]) /\ ev_csv[i].Postal_Code # <<>>) =>
                  Cardinality({j \in Pos(df) :
                      df[j].Postal_Code = BareCode(ev_csv[i].Postal_Code)}) = 1
        /\ \A j, k \in Pos(df) : df[j].Postal_Code = df[k].Postal_Code => j = k


\* C2: in every row of the merged table the ratio is infinite exactly when
\* Total_Ports is zero, and is Total_EVs / Total_Ports otherwise.
C2_RatioInfiniteIffNoPorts ==
    pc \in AfterRatio =>
        \A j \in Pos(df) :
            LET r == df[j].EV_to_Port_Ratio
            IN  /\ (r = Inf) <=> (df[j].Total_Ports = 0)
                /\ df[j].Total_Ports # 0 =>
                      /\ r.d > 0
                      /\ r.n * df[j].Total_Ports = df[j].Total_EVs * r.d

\* C2's case: a row without ports (infinite ratio) beside a row with ports
\* and a fractional ratio, 101 / 2.
C2_Witness ==
    /\ pc = "done"
    /\ \E j, k \in Pos(df) :
          /\ df[j].Total_Ports = 0 /\ df[j].EV_to_Port_Ratio = Inf
          /\ df[k].Total_Ports = 2 /\ df[k].EV_to_Port_Ratio = [n |-> 101, d |-> 2]

\* C3: the priority label of a row is decided by its ratio alone, first
\* match wins: infinite -> CRITICAL; above 100 -> High Opportunity; above 50
\* up to and including 100 -> Medium Opportunity; up to and including 50 ->
\* Well Served.  Every row has exactly one of the four labels.
C3_PriorityPartition ==
    pc \in AfterPriority =>
        \A j \in Pos(df) :
            LET r == df[j].EV_to_Port_Ratio
                l == df[j].Priority_Level
            IN  /\ l \in {"CRITICAL - No Ports", "High Opportunity",
                          "Medium Opportunity", "Well Served"}
                /\ (l = "CRITICAL - No Ports") <=> (r = Inf)
                /\ (l = "High Opportunity") <=> (r # Inf /\ r.n > 100 * r.d)
                /\ (l = "Medium Opportunity") <=>
                      (r # Inf /\ r.n > 50 * r.d /\ r.n <= 100 * r.d)
                /\ (l = "Well Served") <=> (r # Inf /\ r.n <= 50 * r.d)

\* C3's case: a ratio of exactly 100 labelled Medium beside a ratio of
\* exactly 50 labelled Well Served.
C3_Witness ==
    /\ pc = "done"
    /\ \E j, k \in Pos(df) :
          /\ df[j].EV_to_Port_Ratio = [n |-> 100, d |-> 1]
          /\ df[j].Priority_Level = "Medium Opportunity"
          /\ df[k].EV_to_Port_Ratio = [n |-> 50, d |-> 1]
          /\ df[k].Priority_Level = "Well Served"

\* The coordinate the three-tier fallback gives the merged row of a code:
\* the station mean when the station aggregate has one, else the one parsed
\* from the vehicle location of the code, else the centroid (47.5, -120.5).
FallbackCoords(key) ==
    LET agg == SelectSeq(ports_by_zip, LAMBDA r : r.ZIP = key)
        loc == First(SeqMap(LAMBDA r : r.Vehicle_Location,
                            SelectSeq(ev_bev, LAMBDA r : r.Postal_Code = key)))
        veh == extract_coords(loc)
    IN  <<IF agg # <<>> /\ ~isna(agg[1].Latitude) THEN agg[1].Latitude ELSE Some(veh[1]),
          IF agg # <<>> /\ ~isna(agg[1].Longitude) THEN agg[1].Longitude ELSE Some(veh[2])>>

\* C4: every row of the merged table (of a vehicle code) ends with the
\* coordinate of the three-tier fallback (station mean, else parsed vehicle
\* location, else the centroid), so never with a missing coordinate.
C4_ThreeTierFallback ==
    pc \in AfterCoords =>
        \A j \in Pos(df) :
            IsVehicleCode(df[j].Postal_Code) =>
                /\ df[j].Latitude = FallbackCoords(df[j].Postal_Code)[1]
                /\ df[j].Longitude = FallbackCoords(df[j].Postal_Code)[2]

\* C5, the view: priority_targets holds rows of the merged table with
\* Total_Ports < 2 and Total_EVs > 50 only, each once, in non-increasing
\* order of Total_EVs (each row has at least the vehicles of the next), the
\* first 10 of them at most, and no qualifying row left out has more
\* vehicles than a row kept.
C5_View ==
    pc \in AfterTop10 =>
        LET hit(r) == r.Total_Ports < 2 /\ r.Total_EVs > 50
            hits   == {j \in Pos(df) : hit(df[j])}
            kept   == {priority_targets[i].Postal_Code : i \in Pos(priority_targets)}
        IN  /\ \A i \in Pos(priority_targets) :
                  /\ hit(priority_targets[i])
                  /\ \E j \in Pos(df) : Restrict(priority_targets[i], ScoredColumns) = df[j]
            /\ \A i \in 1..(Len(priority_targets) - 1) :
                  priority_targets[i].Total_EVs >= priority_targets[i + 1].Total_EVs
            /\ Cardinality(kept) = Len(priority_targets)
            /\ Len(priority_targets) <= 10
            /\ Len(priority_targets) = IF Cardinality(hits) < 10 THEN Cardinality(hits) ELSE 10
            /\ \A j \in hits : df[j].Postal_Code \notin kept =>
                  \A i \in Pos(priority_targets) :
                      df[j].Total_EVs <= priority_targets[i].Total_EVs

\* C5: the view is as C5_View says in every state, and the statement that
\* builds it, display string included, leaves the merged table as it was.
C5_TopTenView == []C5_View /\ [][pc = "top10" => df' = df]_vars

\* C5's case: ten rows kept, and a qualifying row left out that has as many
\* vehicles as the last row kept (the sort decided between the two), beside
\* one left out that has fewer.
C5_Witness ==
    /\ pc = "done"
    /\ Len(priority_targets) = 10
    /\ \E j, k \in Pos(df) :
          /\ df[j].Total_Ports < 2 /\ df[j].Total_EVs = priority_targets[10].Total_EVs
          /\ df[k].Total_Ports < 2 /\ df[k].Total_EVs > 50
          /\ df[k].Total_EVs < priority_targets[10].Total_EVs
          /\ \A i \in Pos(priority_targets) :
                /\ priority_targets[i].Postal_Code # df[j].Postal_Code
                /\ priority_targets[i].Postal_Code # df[k].Postal_Code


\* C6: top_targets holds rows of the merged table with Total_EVs > 20 only,
\* each once, in non-increasing order of the ratio with every infinite
\* ratio before every finite one, the first 50 of them at most, and no
\* qualifying row left out has a greater ratio than a row kept.
C6_TopFiftyView ==
    pc = "done" =>
        LET hits == {j \in Pos(df) : df[j].Total_EVs > 20}
            kept == {top_targets[i].Postal_Code : i \in Pos(top_targets)}
        IN  /\ \A i \in Pos(top_targets) :
                  /\ top_targets[i].Total_EVs > 20
                  /\ \E j \in Pos(df) : top_targets[i] = df[j]
            /\ \A i \in 1..(Len(top_targets) - 1) :
                  /\ ~RatLess(top_targets[i].EV_to_Port_Ratio,
                              top_targets[i + 1].EV_to_Port_Ratio)
                  /\ top_targets[i + 1].EV_to_Port_Ratio = Inf =>
                        top_targets[i].EV_to_Port_Ratio = Inf
            /\ Cardinality(kept) = Len(top_targets)
            /\ Len(top_targets) <= 50
            /\ Len(top_targets) = IF Cardinality(hits) < 50 THEN Cardinality(hits) ELSE 50
            /\ \A j \in hits : df[j].Postal_Code \notin kept =>
                  \A i \in Pos(top_targets) :
                      ~RatLess(top_targets[i].EV_to_Port_Ratio, df[j].EV_to_Port_Ratio)


\* C6's case: fifty rows kept, infinite ratios before finite ones, and a
\* qualifying row left out that has the ratio of the last row kept (the
\* sort decided between the two).
C6_Witness ==
    /\ pc = "done"
    /\ Len(top_targets) = 50
    /\ top_targets[1].EV_to_Port_Ratio = Inf
    /\ top_targets[50].EV_to_Port_Ratio # Inf
    /\ \E j \in Pos(df) :
          /\ df[j].Total_EVs > 20
          /\ df[j].EV_to_Port_Ratio = top_targets[50].EV_to_Port_Ratio
          /\ \A i \in Pos(top_targets) : top_targets[i].Postal_Code # df[j].Postal_Code


\* The ports the public stations of the file have under a postal code.
PublicPorts(code) ==
    SeqSum([s \in Pos(st_csv) |->
        IF /\ st_csv[s].Access_Code = "public"
           /\ st_csv[s].ZIP # <<>>
           /\ BareCode(st_csv[s].ZIP) = code
        THEN PortCount(st_csv[s].EV_Level2_EVSE_Num) + PortCount(st_csv[s].EV_DC_Fast_Count)
        ELSE 0])

\* C7: Total_Ports of every row of the merged table (of a vehicle code) is
\* the sum, over the public station rows of the file whose ZIP is the row's
\* postal code, of the Level-2 and the DC-fast count, a missing count being
\* zero; private stations add nothing, and a code without such a station
\* has 0 ports.
C7_TotalPortsIsPublicSum ==
    pc \in AfterMerge =>
        \A j \in Pos(df) :
            IsVehicleCode(df[j].Postal_Code) =>
                df[j].Total_Ports = PublicPorts(df[j].Postal_Code)

\* C8: a vehicle row and a station row of the same postal code, however
\* the code is written in either file, get the same key, the bare digits of
\* the code; and rows of different codes get different keys.
C8_SameCodeSameKey ==
    pc \in AfterLoad =>
        \A i \in Pos(ev_csv), s \in Pos(st_csv) :
            (ev_csv[i].Postal_Code # <<>> /\ st_csv[s].ZIP # <<>>) =>
                /\ BareCode(ev_csv[i].Postal_Code) = BareCode(st_csv[s].ZIP) =>
                      /\ ev[i].Postal_Code = stations[s].ZIP
                      /\ ev[i].Postal_Code = BareCode(ev_csv[i].Postal_Code)
                /\ BareCode(ev_csv[i].Postal_Code) # BareCode(st_csv[s].ZIP) =>
                      ev[i].Postal_Code # stations[s].ZIP

\* C9: Total_EVs of every row of the merged table is the number of vehicle
\* rows of the file with the row's code that are in State WA and of type
\* BEV, whatever their other columns hold.
C9_TotalEVsCountsRows ==
    pc \in AfterMerge =>
        \A j \in Pos(df) :
            df[j].Total_EVs =
                Cardinality({i \in Pos(ev_csv) :
                    Qualifies(ev_csv[i]) /\ ev[i].Postal_Code = df[j].Postal_Code})

\* C10: a vehicle row without a postal code gives no row of the merged
\* table (every row of the merged table is the code of a filtered vehicle
\* row that has one), so it joins no station row either.
C10_MissingCodeDropped ==
    pc \in AfterMerge =>
        \A j \in Pos(df) : IsVehicleCode(df[j].Postal_Code)

====
